---- MODULE Spec2Model ----
(***************************************************************************)
(* Model of programs/custom_token_program/src/lib.rs: an Anchor program    *)
(* with four instructions (create_token_mint, delegate_tokens,             *)
(* freeze_token_account, thaw_token_account) in front of the SPL Token     *)
(* program.  The state is the part of the token ledger the instructions    *)
(* read and write (mints and token accounts), plus the outcome of the last *)
(* instruction and the cross-program requests it issued.                   *)
(*                                                                         *)
(* An instruction is atomic (a failed transaction changes nothing), so     *)
(* each instruction is one action: account validation generated from the   *)
(* #[derive(Accounts)] structs, then the handler body, then the CPI.       *)
(***************************************************************************)
EXTENDS Integers, Sequences, FiniteSets, TLC

(***************************************************************************)
(* Bounds of the model.                                                    *)
(***************************************************************************)
MaxBump == 2        \* bump seeds searched are MaxBump, MaxBump-1, ..., 0
MaxAmount == 1      \* delegated amounts are 0..MaxAmount
MaxDecimals == 1    \* mint precisions are 0..MaxDecimals

(***************************************************************************)
(* Identities (Pubkey).  Every key is a triple so that wallet keys,        *)
(* program derived addresses and the absent key are comparable.            *)
(***************************************************************************)
Wallet(n) == <<"wallet", n, 0>>
None == <<"none", "", 0>>              \* COption::None
M1 == Wallet("M1")
M2 == Wallet("M2")
D == Wallet("D")                       \* an identity that never signs
Signers == {M1, M2}
Owners == {M2}                         \* holders that open token accounts
Payers == {M1}                         \* signers that pay for a new mint
Delegates == {M2, D}
Amounts == 0..MaxAmount
Decimals == 0..MaxDecimals

CreatableMints == {"mintA"}            \* fresh keypairs create_token_mint may initialise
ForeignMints == {"mintF"}              \* a mint initialised outside the program
MintKeys == CreatableMints \cup ForeignMints
AccountKeys == {"acc1", "acc2"}
\* The mints a token account key is opened for: acc1 for any mint, acc2 for
\* a mint made by create_token_mint (so two accounts share a mint or not).
AccountMints(a) == IF a = "acc1" THEN MintKeys ELSE CreatableMints

NoMint == [exists |-> FALSE, decimals |-> 0, mint_authority |-> None,
           freeze_authority |-> None]
NoAccount == [exists |-> FALSE, mint |-> "", owner |-> None, delegate |-> None,
              delegated_amount |-> 0, frozen |-> FALSE]

VARIABLES mints, accounts, last, cpi
vars == <<mints, accounts, last, cpi>>

(***************************************************************************)
(* Program derived address of the seeds [label, bump].  The hash is        *)
(* abstracted by a fixed predicate saying which candidates fall on the     *)
(* curve; the candidate with the highest bump off the curve is canonical.  *)
(***************************************************************************)
OnCurve(label, bump) ==
    IF label = "authority" THEN bump = MaxBump ELSE bump >= MaxBump - 1

CreateProgramAddress(label, bump) ==
    IF OnCurve(label, bump) THEN None ELSE <<"pda", label, bump>>

RECURSIVE FindFrom(_, _)
FindFrom(label, bump) ==
    IF bump < 0 THEN [found |-> FALSE, key |-> None, bump |-> 0]
    ELSE IF CreateProgramAddress(label, bump) # None
         THEN [found |-> TRUE, key |-> CreateProgramAddress(label, bump), bump |-> bump]
         ELSE FindFrom(label, bump - 1)

FindProgramAddress(label) == FindFrom(label, MaxBump)

\* seeds = [b"authority"], bump  (CreateTokenMint.program_authority)
CreateMintProgramAuthority == FindProgramAddress("authority")
\* Variant of FreezeOrThawProgramAuthority: the seeds use another label than
\* the seeds of CreateTokenMint.
FreezeOrThawProgramAuthority_OtherLabel == FindProgramAddress("freeze")

\* seeds = [b"authority"], bump  (FreezeOrThawAccount.program_authority)
FreezeOrThawProgramAuthority == FindProgramAddress("authority")

(***************************************************************************)
(* The SPL Token instructions reached through anchor_spl::token.  Each     *)
(* returns the ledger's answer and the token accounts after it.            *)
(***************************************************************************)
LedgerFail(accts, err) == [result |-> err, accounts |-> accts]

\* Variant of TokenApprove: the amount is added to the amount already approved.
TokenApprove_Accumulate(accts, a, delegate, amount, authority, signed) ==
    IF accts[a].frozen THEN LedgerFail(accts, "AccountFrozen")
    ELSE IF accts[a].owner # authority THEN LedgerFail(accts, "OwnerMismatch")
    ELSE IF ~signed THEN LedgerFail(accts, "MissingRequiredSignature")
    ELSE [result |-> "Ok",
          accounts |-> [accts EXCEPT ![a].delegate = delegate,
                                     ![a].delegated_amount = @ + amount]]

\* Variant of TokenApprove: the approval is written to every token account
\* of the owner.
TokenApprove_EveryAccountOfOwner(accts, a, delegate, amount, authority, signed) ==
    IF accts[a].frozen THEN LedgerFail(accts, "AccountFrozen")
    ELSE IF accts[a].owner # authority THEN LedgerFail(accts, "OwnerMismatch")
    ELSE IF ~signed THEN LedgerFail(accts, "MissingRequiredSignature")
    ELSE [result |-> "Ok",
          accounts |-> [b \in DOMAIN accts |->
                           IF accts[b].exists /\ accts[b].owner = authority
                           THEN [accts[b] EXCEPT !.delegate = delegate,
                                                 !.delegated_amount = amount]
                           ELSE accts[b]]]

\* token::approve: the account must not be frozen, the authority must be
\* the owner and must have signed; delegate and amount are stored as given.
TokenApprove(accts, a, delegate, amount, authority, signed) ==
    IF accts[a].frozen THEN LedgerFail(accts, "AccountFrozen")
    ELSE IF accts[a].owner # authority THEN LedgerFail(accts, "OwnerMismatch")
    ELSE IF ~signed THEN LedgerFail(accts, "MissingRequiredSignature")
    ELSE [result |-> "Ok",
          accounts |-> [accts EXCEPT ![a].delegate = delegate,
                                     ![a].delegated_amount = amount]]

\* Variant of ToggleFreeze: the flag is set on every token account of the mint.
ToggleFreeze_Cascade(accts, mnts, a, m, freeze, authority, signed) ==
    IF accts[a].frozen = freeze THEN LedgerFail(accts, "InvalidState")
    ELSE IF accts[a].mint # m THEN LedgerFail(accts, "MintMismatch")
    ELSE IF mnts[m].freeze_authority = None THEN LedgerFail(accts, "MintCannotFreeze")
    ELSE IF mnts[m].freeze_authority # authority THEN LedgerFail(accts, "OwnerMismatch")
    ELSE IF ~signed THEN LedgerFail(accts, "MissingRequiredSignature")
    ELSE [result |-> "Ok",
          accounts |-> [b \in DOMAIN accts |->
                           IF accts[b].exists /\ accts[b].mint = m
                           THEN [accts[b] EXCEPT !.frozen = freeze] ELSE accts[b]]]

\* token::freeze_account / token::thaw_account (one routine in SPL Token,
\* selected by the flag freeze).
ToggleFreeze(accts, mnts, a, m, freeze, authority, signed) ==
    IF accts[a].frozen = freeze THEN LedgerFail(accts, "InvalidState")
    ELSE IF accts[a].mint # m THEN LedgerFail(accts, "MintMismatch")
    ELSE IF mnts[m].freeze_authority = None THEN LedgerFail(accts, "MintCannotFreeze")
    ELSE IF mnts[m].freeze_authority # authority THEN LedgerFail(accts, "OwnerMismatch")
    ELSE IF ~signed THEN LedgerFail(accts, "MissingRequiredSignature")
    ELSE [result |-> "Ok", accounts |-> [accts EXCEPT ![a].frozen = freeze]]

TokenFreezeAccount(accts, mnts, a, m, authority, signed) ==
    ToggleFreeze(accts, mnts, a, m, TRUE, authority, signed)

TokenThawAccount(accts, mnts, a, m, authority, signed) ==
    ToggleFreeze(accts, mnts, a, m, FALSE, authority, signed)

(***************************************************************************)
(* Outcome of an instruction: its result, the ledger after it and the      *)
(* requests it sent to the token program.                                  *)
(***************************************************************************)
Abort(accts, mnts, err) ==
    [result |-> err, accounts |-> accts, mints |-> mnts, cpi |-> <<>>]


Request(req, target, authority, signed) ==
    [req |-> req, target |-> target, authority |-> authority, signed |-> signed]

\* Variant of CreateTokenMintAccounts: the freeze authority is the mint
\* authority instead of the program authority.
CreateTokenMintAccounts_AuthorityAsFreeze(accts, mnts, m, decimals, mint_authority, funded) ==
    IF mnts[m].exists THEN Abort(accts, mnts, "AccountAlreadyInUse")
    ELSE IF ~funded THEN Abort(accts, mnts, "InsufficientFunds")
    ELSE [result |-> "Ok", accounts |-> accts,
          mints |-> [mnts EXCEPT ![m] = [exists |-> TRUE,
                                         decimals |-> decimals,
                                         mint_authority |-> mint_authority,
                                         freeze_authority |-> mint_authority]],
          cpi |-> <<>>]

\* Variant of CreateTokenMintAccounts: init_if_needed without a check of the
\* existing mint, so an existing mint is initialised again.
CreateTokenMintAccounts_InitIfNeeded(accts, mnts, m, decimals, mint_authority, funded) ==
    IF ~funded THEN Abort(accts, mnts, "InsufficientFunds")
    ELSE [result |-> "Ok", accounts |-> accts,
          mints |-> [mnts EXCEPT ![m] = [exists |-> TRUE,
                                         decimals |-> decimals,
                                         mint_authority |-> mint_authority,
                                         freeze_authority |->
                                             FindProgramAddress("authority").key]],
          cpi |-> <<>>]

\* Variant of CreateTokenMintAccounts: an existing mint keeps its decimals
\* but is bound to the authority given.
CreateTokenMintAccounts_Rebind(accts, mnts, m, decimals, mint_authority, funded) ==
    IF mnts[m].exists
    THEN [result |-> "Ok", accounts |-> accts,
          mints |-> [mnts EXCEPT ![m].mint_authority = mint_authority],
          cpi |-> <<>>]
    ELSE IF ~funded THEN Abort(accts, mnts, "InsufficientFunds")
    ELSE [result |-> "Ok", accounts |-> accts,
          mints |-> [mnts EXCEPT ![m] = [exists |-> TRUE,
                                         decimals |-> decimals,
                                         mint_authority |-> mint_authority,
                                         freeze_authority |->
                                             FindProgramAddress("authority").key]],
          cpi |-> <<>>]

(***************************************************************************)
(* #[derive(Accounts)] CreateTokenMint: the init constraint allocates the  *)
(* mint account (which fails when the address is already in use or the     *)
(* payer cannot fund it) and initialises it with the given decimals and    *)
(* authority and with the program authority as freeze authority.           *)
(***************************************************************************)
CreateTokenMintAccounts(accts, mnts, m, decimals, mint_authority, funded) ==
    LET pa == CreateMintProgramAuthority
        create == Request("system::create_account", m, None, TRUE)
        init == Request("token::initialize_mint2", m, None, TRUE)
    IN  IF ~pa.found THEN Abort(accts, mnts, "ConstraintSeeds")
        ELSE IF mnts[m].exists
             THEN [Abort(accts, mnts, "AccountAlreadyInUse") EXCEPT !.cpi = <<create>>]
        ELSE IF ~funded
             THEN [Abort(accts, mnts, "InsufficientFunds") EXCEPT !.cpi = <<create>>]
        ELSE [result |-> "Ok", accounts |-> accts,
              mints |-> [mnts EXCEPT ![m] = [exists |-> TRUE,
                                             decimals |-> decimals,
                                             mint_authority |-> mint_authority,
                                             freeze_authority |-> pa.key]],
              cpi |-> <<create, init>>]

\* Instruction 1.  The handler body is Ok(()): everything is done by the
\* account constraints.
create_token_mint(accts, mnts, m, decimals, mint_authority, funded) ==
    CreateTokenMintAccounts(accts, mnts, m, decimals, mint_authority, funded)

(***************************************************************************)
(* #[derive(Accounts)] DelegateTokens: token_account must be an            *)
(* initialised token account; delegate is unchecked; owner is any signer.  *)
(***************************************************************************)
DelegateTokensAccounts(accts, a) ==
    IF ~accts[a].exists THEN "AccountNotInitialized" ELSE "Ok"

\* Variant of delegate_tokens: the delegate must be a known signer.
delegate_tokens_SignerDelegateOnly(accts, mnts, owner, a, delegate, amount) ==
    IF DelegateTokensAccounts(accts, a) # "Ok"
    THEN Abort(accts, mnts, DelegateTokensAccounts(accts, a))
    ELSE IF delegate \notin Signers THEN Abort(accts, mnts, "ConstraintSigner")
    ELSE LET r == TokenApprove(accts, a, delegate, amount, owner, TRUE)
         IN  [result |-> r.result, accounts |-> r.accounts, mints |-> mnts,
              cpi |-> <<Request("token::approve", a, owner, TRUE)>>]

\* Variant of delegate_tokens: the owner is compared locally and a mismatch
\* is answered without asking the token program.
delegate_tokens_LocalOwnerCheck(accts, mnts, owner, a, delegate, amount) ==
    IF DelegateTokensAccounts(accts, a) # "Ok"
    THEN Abort(accts, mnts, DelegateTokensAccounts(accts, a))
    ELSE IF accts[a].owner # owner THEN Abort(accts, mnts, "Unauthorized")
    ELSE LET r == TokenApprove(accts, a, delegate, amount, owner, TRUE)
         IN  [result |-> r.result, accounts |-> r.accounts, mints |-> mnts,
              cpi |-> <<Request("token::approve", a, owner, TRUE)>>]

\* Instruction 2: forwards to token::approve with the signer as authority.
delegate_tokens(accts, mnts, owner, a, delegate, amount) ==
    IF DelegateTokensAccounts(accts, a) # "Ok"
    THEN Abort(accts, mnts, DelegateTokensAccounts(accts, a))
    ELSE LET r == TokenApprove(accts, a, delegate, amount, owner, TRUE)
         IN  [result |-> r.result, accounts |-> r.accounts, mints |-> mnts,
              cpi |-> <<Request("token::approve", a, owner, TRUE)>>]

\* Variant of FreezeOrThawAccountAccounts: the constraint tying the mint to
\* the token account is missing.
FreezeOrThawAccountAccounts_NoMintConstraint(accts, mnts, a, m) ==
    IF ~accts[a].exists \/ ~mnts[m].exists THEN "AccountNotInitialized"
    ELSE "Ok"

(***************************************************************************)
(* #[derive(Accounts)] FreezeOrThawAccount: both accounts must be          *)
(* initialised, the supplied mint must be the one the token account        *)
(* refers to (constraint = mint.key() == token_account_to_process.mint)    *)
(* and the program authority must derive from the seeds.                   *)
(***************************************************************************)
FreezeOrThawAccountAccounts(accts, mnts, a, m) ==
    IF ~accts[a].exists \/ ~mnts[m].exists THEN "AccountNotInitialized"
    ELSE IF m # accts[a].mint THEN "ConstraintRaw"
    ELSE IF ~FreezeOrThawProgramAuthority.found THEN "ConstraintSeeds"
    ELSE "Ok"

\* The signer seeds ["authority", bump] the handlers hand to the CPI make
\* the program authority a signer exactly when they derive its address.
SignedBySeeds(label, bump, authority) ==
    CreateProgramAddress(label, bump) = authority

\* Variant of freeze_token_account: the result of the request is dropped
\* (no '?'), so the instruction reports success whatever the answer.
freeze_token_account_SwallowError(accts, mnts, admin, a, m) ==
    IF FreezeOrThawAccountAccounts(accts, mnts, a, m) # "Ok"
    THEN Abort(accts, mnts, FreezeOrThawAccountAccounts(accts, mnts, a, m))
    ELSE IF mnts[m].mint_authority = None
    THEN Abort(accts, mnts, "Panic")
    ELSE IF admin # mnts[m].mint_authority
    THEN Abort(accts, mnts, "Unauthorized")
    ELSE LET pa == FreezeOrThawProgramAuthority
             signed == SignedBySeeds("authority", pa.bump, pa.key)
             r == TokenFreezeAccount(accts, mnts, a, m, pa.key, signed)
         IN  [result |-> "Ok", accounts |-> r.accounts, mints |-> mnts,
              cpi |-> <<Request("token::freeze_account", a, pa.key, signed)>>]

\* Variant of freeze_token_account: an account that is already frozen is
\* answered locally, without a request.
freeze_token_account_LocalGuard(accts, mnts, admin, a, m) ==
    IF FreezeOrThawAccountAccounts(accts, mnts, a, m) # "Ok"
    THEN Abort(accts, mnts, FreezeOrThawAccountAccounts(accts, mnts, a, m))
    ELSE IF mnts[m].mint_authority = None
    THEN Abort(accts, mnts, "Panic")
    ELSE IF admin # mnts[m].mint_authority
    THEN Abort(accts, mnts, "Unauthorized")
    ELSE IF accts[a].frozen
    THEN Abort(accts, mnts, "Ok")
    ELSE LET pa == FreezeOrThawProgramAuthority
             signed == SignedBySeeds("authority", pa.bump, pa.key)
             r == TokenFreezeAccount(accts, mnts, a, m, pa.key, signed)
         IN  [result |-> r.result, accounts |-> r.accounts, mints |-> mnts,
              cpi |-> <<Request("token::freeze_account", a, pa.key, signed)>>]

\* Variant of freeze_token_account: the require_keys_eq! is missing.
freeze_token_account_NoAdminCheck(accts, mnts, admin, a, m) ==
    IF FreezeOrThawAccountAccounts(accts, mnts, a, m) # "Ok"
    THEN Abort(accts, mnts, FreezeOrThawAccountAccounts(accts, mnts, a, m))
    ELSE LET pa == FreezeOrThawProgramAuthority
             signed == SignedBySeeds("authority", pa.bump, pa.key)
             r == TokenFreezeAccount(accts, mnts, a, m, pa.key, signed)
         IN  [result |-> r.result, accounts |-> r.accounts, mints |-> mnts,
              cpi |-> <<Request("token::freeze_account", a, pa.key, signed)>>]

\* Instruction 3.
freeze_token_account(accts, mnts, admin, a, m) ==
    IF FreezeOrThawAccountAccounts(accts, mnts, a, m) # "Ok"
    THEN Abort(accts, mnts, FreezeOrThawAccountAccounts(accts, mnts, a, m))
    ELSE IF mnts[m].mint_authority = None
    THEN Abort(accts, mnts, "Panic")                 \* unwrap() of None
    ELSE IF admin # mnts[m].mint_authority
    THEN Abort(accts, mnts, "Unauthorized")          \* require_keys_eq!
    ELSE LET pa == FreezeOrThawProgramAuthority
             signed == SignedBySeeds("authority", pa.bump, pa.key)
             r == TokenFreezeAccount(accts, mnts, a, m, pa.key, signed)
         IN  [result |-> r.result, accounts |-> r.accounts, mints |-> mnts,
              cpi |-> <<Request("token::freeze_account", a, pa.key, signed)>>]

\* Variant of thaw_token_account: an absent mint authority is replaced by the
\* signer (unwrap_or(admin.key())), so the comparison passes.
thaw_token_account_UnwrapOrAdmin(accts, mnts, admin, a, m) ==
    IF FreezeOrThawAccountAccounts(accts, mnts, a, m) # "Ok"
    THEN Abort(accts, mnts, FreezeOrThawAccountAccounts(accts, mnts, a, m))
    ELSE IF mnts[m].mint_authority # None /\ admin # mnts[m].mint_authority
    THEN Abort(accts, mnts, "Unauthorized")
    ELSE LET pa == FreezeOrThawProgramAuthority
             signed == SignedBySeeds("authority", pa.bump, pa.key)
             r == TokenThawAccount(accts, mnts, a, m, pa.key, signed)
         IN  [result |-> r.result, accounts |-> r.accounts, mints |-> mnts,
              cpi |-> <<Request("token::thaw_account", a, pa.key, signed)>>]

\* Variant of thaw_token_account: the signer is compared with the owner of
\* the token account instead of the mint authority.
thaw_token_account_OwnerAsAdmin(accts, mnts, admin, a, m) ==
    IF FreezeOrThawAccountAccounts(accts, mnts, a, m) # "Ok"
    THEN Abort(accts, mnts, FreezeOrThawAccountAccounts(accts, mnts, a, m))
    ELSE IF admin # accts[a].owner
    THEN Abort(accts, mnts, "Unauthorized")
    ELSE LET pa == FreezeOrThawProgramAuthority
             signed == SignedBySeeds("authority", pa.bump, pa.key)
             r == TokenThawAccount(accts, mnts, a, m, pa.key, signed)
         IN  [result |-> r.result, accounts |-> r.accounts, mints |-> mnts,
              cpi |-> <<Request("token::thaw_account", a, pa.key, signed)>>]

\* Variant of thaw_token_account: the require_keys_eq! is missing.
thaw_token_account_NoAdminCheck(accts, mnts, admin, a, m) ==
    IF FreezeOrThawAccountAccounts(accts, mnts, a, m) # "Ok"
    THEN Abort(accts, mnts, FreezeOrThawAccountAccounts(accts, mnts, a, m))
    ELSE LET pa == FreezeOrThawProgramAuthority
             signed == SignedBySeeds("authority", pa.bump, pa.key)
             r == TokenThawAccount(accts, mnts, a, m, pa.key, signed)
         IN  [result |-> r.result, accounts |-> r.accounts, mints |-> mnts,
              cpi |-> <<Request("token::thaw_account", a, pa.key, signed)>>]

\* Variant of thaw_token_account: the body of freeze_token_account copied
\* without replacing the request.
thaw_token_account_CallsFreeze(accts, mnts, admin, a, m) ==
    IF FreezeOrThawAccountAccounts(accts, mnts, a, m) # "Ok"
    THEN Abort(accts, mnts, FreezeOrThawAccountAccounts(accts, mnts, a, m))
    ELSE IF mnts[m].mint_authority = None
    THEN Abort(accts, mnts, "Panic")
    ELSE IF admin # mnts[m].mint_authority
    THEN Abort(accts, mnts, "Unauthorized")
    ELSE LET pa == FreezeOrThawProgramAuthority
             signed == SignedBySeeds("authority", pa.bump, pa.key)
             r == TokenFreezeAccount(accts, mnts, a, m, pa.key, signed)
         IN  [result |-> r.result, accounts |-> r.accounts, mints |-> mnts,
              cpi |-> <<Request("token::freeze_account", a, pa.key, signed)>>]

\* Instruction 4.
thaw_token_account(accts, mnts, admin, a, m) ==
    IF FreezeOrThawAccountAccounts(accts, mnts, a, m) # "Ok"
    THEN Abort(accts, mnts, FreezeOrThawAccountAccounts(accts, mnts, a, m))
    ELSE IF mnts[m].mint_authority = None
    THEN Abort(accts, mnts, "Panic")                 \* unwrap() of None
    ELSE IF admin # mnts[m].mint_authority
    THEN Abort(accts, mnts, "Unauthorized")          \* require_keys_eq!
    ELSE LET pa == FreezeOrThawProgramAuthority
             signed == SignedBySeeds("authority", pa.bump, pa.key)
             r == TokenThawAccount(accts, mnts, a, m, pa.key, signed)
         IN  [result |-> r.result, accounts |-> r.accounts, mints |-> mnts,
              cpi |-> <<Request("token::thaw_account", a, pa.key, signed)>>]

(***************************************************************************)
(* The state machine.  last records the latest instruction: its name, its  *)
(* result, the signer, the accounts named and the named token account as   *)
(* it was before the instruction; cpi the requests the instruction sent.   *)
(***************************************************************************)
Call(op, signer, a, m) == [op |-> op, signer |-> signer, account |-> a, mint |-> m]

Apply(o, call) ==
    /\ accounts' = o.accounts
    /\ mints' = o.mints
    /\ cpi' = o.cpi
    /\ last' = [op |-> call.op, result |-> o.result, signer |-> call.signer,
                account |-> call.account, mint |-> call.mint,
                before |-> IF call.account \in AccountKeys
                           THEN accounts[call.account] ELSE NoAccount]

\* The mint that exists before the program is first used: its mint
\* authority may be absent, and its freeze authority may be absent, a wallet
\* or the program authority.
ForeignMint(mint_authority, freeze_authority) ==
    [exists |-> TRUE, decimals |-> 0, mint_authority |-> mint_authority,
     freeze_authority |-> freeze_authority]

ForeignMintRecords ==
    {ForeignMint(None, FindProgramAddress("authority").key),
     ForeignMint(M2, FindProgramAddress("authority").key),
     ForeignMint(M2, M2),
     ForeignMint(M2, None)}

\* A token account of the foreign mint that was frozen before the program
\* is first used (whatever the mint's authorities have become since).
FrozenForeignAccount ==
    [exists |-> TRUE, mint |-> "mintF", owner |-> M2, delegate |-> None,
     delegated_amount |-> 0, frozen |-> TRUE]

Init ==
    /\ \E f \in ForeignMintRecords :
          mints = [m \in MintKeys |-> IF m \in ForeignMints THEN f ELSE NoMint]
    /\ \E held \in {NoAccount, FrozenForeignAccount} :
          accounts = [a \in AccountKeys |-> IF a = "acc1" THEN held ELSE NoAccount]
    /\ last = [op |-> "none", result |-> "Ok", signer |-> None, account |-> "",
               mint |-> "", before |-> NoAccount]
    /\ cpi = <<>>

\* A holder opens a token account for an existing mint directly at the
\* token program (the program itself has no instruction for it).
InitializeAccount(a, m, owner) ==
    /\ ~accounts[a].exists
    /\ mints[m].exists
    /\ accounts' = [accounts EXCEPT ![a] = [exists |-> TRUE, mint |-> m, owner |-> owner,
                                            delegate |-> None, delegated_amount |-> 0,
                                            frozen |-> FALSE]]
    /\ last' = [op |-> "initialize_account", result |-> "Ok", signer |-> owner,
                account |-> a, mint |-> m, before |-> NoAccount]
    /\ cpi' = <<>>
    /\ UNCHANGED mints

CreateTokenMint(payer, m, decimals, mint_authority, funded) ==
    Apply(create_token_mint(accounts, mints, m, decimals, mint_authority, funded),
          Call("create_token_mint", payer, "", m))

DelegateTokens(owner, a, delegate, amount) ==
    Apply(delegate_tokens(accounts, mints, owner, a, delegate, amount),
          Call("delegate_tokens", owner, a, ""))

FreezeTokenAccount(admin, a, m) ==
    Apply(freeze_token_account(accounts, mints, admin, a, m),
          Call("freeze_token_account", admin, a, m))

ThawTokenAccount(admin, a, m) ==
    Apply(thaw_token_account(accounts, mints, admin, a, m),
          Call("thaw_token_account", admin, a, m))

Next ==
    \/ \E a \in AccountKeys, owner \in Owners : \E m \in AccountMints(a) :
          InitializeAccount(a, m, owner)
    \/ \E payer \in Payers, m \in MintKeys, d \in Decimals,
          auth \in Signers, funded \in BOOLEAN :
          CreateTokenMint(payer, m, d, auth, funded)
    \/ \E owner \in Signers, a \in AccountKeys, dl \in Delegates, amt \in Amounts :
          DelegateTokens(owner, a, dl, amt)
    \/ \E admin \in Signers, a \in AccountKeys, m \in MintKeys :
          FreezeTokenAccount(admin, a, m)
    \/ \E admin \in Signers, a \in AccountKeys, m \in MintKeys :
          ThawTokenAccount(admin, a, m)

Spec == Init /\ [][Next]_vars

(***************************************************************************)
(* Vocabulary of the properties.                                           *)
(***************************************************************************)
ProgramAuthority == FindProgramAddress("authority").key
StructuralMismatch == "ConstraintRaw"     \* the error of a failed constraint = ...
FreezeOps == {"freeze_token_account", "thaw_token_account"}

\* The outcome of freeze (flag TRUE) or thaw (flag FALSE) called in the
\* current state.
Toggle(freeze, admin, a, m) ==
    IF freeze THEN freeze_token_account(accounts, mints, admin, a, m)
    ELSE thaw_token_account(accounts, mints, admin, a, m)

\* The calls the properties range over: an existing token account and an
\* existing mint.
Named(a, m) == accounts[a].exists /\ mints[m].exists

Authorized(admin, a, m) == admin = mints[m].mint_authority /\ m = accounts[a].mint

(***************************************************************************)
(* C1 as stated: freeze/thaw succeeds if and only if admin is the mint's   *)
(* mint_authority and the mint is the account's mint; every other call     *)
(* returns Unauthorized or StructuralMismatch and leaves frozen unchanged. *)
(***************************************************************************)
C1_AsStated ==
    (last.op \in FreezeOps /\ last.before.exists /\ mints[last.mint].exists)
    => LET authorized == /\ last.signer = mints[last.mint].mint_authority
                         /\ last.mint = last.before.mint
       IN  /\ (last.result = "Ok") <=> authorized
           /\ ~authorized =>
                 /\ last.result \in {"Unauthorized", StructuralMismatch}
                 /\ accounts[last.account].frozen = last.before.frozen

(***************************************************************************)
(* C1 amended: freeze/thaw succeeds if and only if the mint is the         *)
(* account's mint, admin is the mint's mint_authority, the mint's          *)
(* freeze_authority is the program authority and the account is in the     *)
(* opposite state; a mismatched mint gives StructuralMismatch, a matching  *)
(* mint whose present mint_authority differs from admin gives              *)
(* Unauthorized, and every failing call leaves the frozen flag unchanged.  *)
(***************************************************************************)
C1_FreezeThawIff ==
    \A freeze \in BOOLEAN, admin \in Signers, a \in AccountKeys, m \in MintKeys :
        Named(a, m) =>
            LET o == Toggle(freeze, admin, a, m)
            IN  /\ (o.result = "Ok") <=>
                      /\ Authorized(admin, a, m)
                      /\ mints[m].freeze_authority = ProgramAuthority
                      /\ accounts[a].frozen # freeze
                /\ m # accounts[a].mint => o.result = StructuralMismatch
                /\ ( /\ m = accounts[a].mint
                     /\ mints[m].mint_authority \notin {None, admin} )
                      => o.result = "Unauthorized"
                /\ o.result # "Ok" => o.accounts[a].frozen = accounts[a].frozen
                /\ o.result = "Ok" => o.accounts[a].frozen = freeze

\* An authorized freeze has just frozen an Active account.
C1_Witness ==
    /\ last.op = "freeze_token_account" /\ last.result = "Ok"
    /\ last.signer = mints[last.mint].mint_authority
    /\ ~last.before.frozen /\ accounts[last.account].frozen

(***************************************************************************)
(* C2: a freeze or thaw whose admin differs from the mint_authority of the *)
(* (matching) mint returns Unauthorized, sends no request to the token     *)
(* program and leaves the ledger as it was.                                *)
(***************************************************************************)
C2_UnauthorizedNoEffect ==
    ( /\ last.op \in FreezeOps
      /\ last.before.exists /\ mints[last.mint].exists
      /\ last.mint = last.before.mint
      /\ last.signer # mints[last.mint].mint_authority )
    => /\ last.result = "Unauthorized"
       /\ cpi = <<>>
       /\ accounts[last.account] = last.before

(***************************************************************************)
(* C3: a freeze or thaw whose mint is not the account's mint is rejected   *)
(* with StructuralMismatch whether or not admin is the mint_authority of   *)
(* the supplied mint, never with Unauthorized, and changes nothing.        *)
(***************************************************************************)
C3_StructuralCheckFirst ==
    \A freeze \in BOOLEAN, admin \in Signers, a \in AccountKeys, m \in MintKeys :
        (Named(a, m) /\ m # accounts[a].mint)
        => LET o == Toggle(freeze, admin, a, m)
           IN  /\ o.result = StructuralMismatch
               /\ o.result # "Unauthorized"
               /\ o.cpi = <<>>
               /\ o.accounts = accounts
               /\ o.mints = mints

\* A call with the wrong mint by a signer who is not the authority of the
\* supplied mint was rejected as a structural mismatch.
C3_Witness ==
    /\ last.op \in FreezeOps /\ last.result = StructuralMismatch
    /\ last.mint # accounts[last.account].mint
    /\ mints[last.mint].exists
    /\ last.signer # mints[last.mint].mint_authority
    /\ accounts[last.account] = last.before

(***************************************************************************)
(* C4: for a mint created by create_token_mint, every change of the frozen *)
(* flag of one of its accounts is made by a successful freeze or thaw of   *)
(* that account signed by the mint's mint_authority, and a freeze or thaw  *)
(* sends the program authority's proof to the token program only when the  *)
(* signer is the mint_authority.                                           *)
(***************************************************************************)
C4_OnlyMintAuthorityToggles ==
    [][ /\ \A a \in AccountKeys :
              ( /\ accounts[a].exists
                /\ accounts[a].mint \in CreatableMints
                /\ accounts'[a].frozen # accounts[a].frozen )
              => /\ last'.op \in FreezeOps
                 /\ last'.account = a
                 /\ last'.result = "Ok"
                 /\ last'.signer = mints[accounts[a].mint].mint_authority
        /\ (last'.op \in FreezeOps /\ cpi' # <<>>)
              => /\ Len(cpi') = 1
                 /\ cpi'[1].authority = ProgramAuthority
                 /\ last'.signer = mints[last'.mint].mint_authority
      ]_vars

\* The mint_authority of a created mint has just thawed a frozen account.
C4_Witness ==
    /\ last.op = "thaw_token_account" /\ last.result = "Ok"
    /\ last.mint \in CreatableMints
    /\ last.signer = mints[last.mint].mint_authority
    /\ last.before.frozen /\ ~accounts[last.account].frozen
    /\ cpi # <<>>

(***************************************************************************)
(* C5: a successful create_token_mint(d, A) leaves a mint with decimals d, *)
(* mint_authority A and the program authority derived from "authority" as  *)
(* freeze_authority, whoever pays.                                         *)
(***************************************************************************)
C5_CreateMintBinds ==
    \A m \in MintKeys, d \in Decimals, auth \in Signers, funded \in BOOLEAN :
        LET o == create_token_mint(accounts, mints, m, d, auth, funded)
        IN  o.result = "Ok" =>
               o.mints[m] = [exists |-> TRUE, decimals |-> d, mint_authority |-> auth,
                             freeze_authority |-> CreateProgramAddress("authority",
                                                      FindProgramAddress("authority").bump)]

\* A mint has just been created with an authority that is not the payer.
C5_Witness ==
    /\ last.op = "create_token_mint" /\ last.result = "Ok"
    /\ mints[last.mint].exists
    /\ mints[last.mint].mint_authority # last.signer
    /\ mints[last.mint].decimals = MaxDecimals
    /\ mints[last.mint].freeze_authority = ProgramAuthority

(***************************************************************************)
(* C6: no instruction changes an existing mint, and every mint created by  *)
(* create_token_mint has the program authority as freeze_authority in      *)
(* every state.                                                            *)
(***************************************************************************)
C6_MintsImmutable ==
    [][ \A m \in MintKeys :
           /\ mints[m].exists => mints'[m] = mints[m]
           /\ (m \in CreatableMints /\ mints'[m].exists)
                 => mints'[m].freeze_authority = ProgramAuthority
      ]_vars

\* A created mint after a delegation, a freeze and a thaw on its account.
C6_Witness ==
    /\ last.op = "thaw_token_account" /\ last.result = "Ok"
    /\ last.mint \in CreatableMints
    /\ accounts[last.account].delegate # None
    /\ mints[last.mint].freeze_authority = ProgramAuthority

(***************************************************************************)
(* C7 as stated: a delegation signed by the owner of the token account     *)
(* succeeds in every state of the account, frozen or not.                  *)
(***************************************************************************)
C7_AsStated ==
    ( /\ last.op = "delegate_tokens"
      /\ last.before.exists
      /\ last.signer = last.before.owner )
    => last.result = "Ok"

(***************************************************************************)
(* C7 amended: the delegate identity is never inspected (the result of a   *)
(* delegation is the same for every delegate), and a delegation signed by  *)
(* the owner succeeds whenever the account is not frozen; on a frozen      *)
(* account it fails with the token program's AccountFrozen.                *)
(***************************************************************************)
C7_DelegateUninspected ==
    \A owner \in Signers, a \in AccountKeys, amt \in Amounts :
        accounts[a].exists =>
            /\ \A d1, d2 \in Delegates :
                  delegate_tokens(accounts, mints, owner, a, d1, amt).result
                     = delegate_tokens(accounts, mints, owner, a, d2, amt).result
            /\ \A dl \in Delegates :
                  LET o == delegate_tokens(accounts, mints, owner, a, dl, amt)
                  IN  owner = accounts[a].owner =>
                         IF accounts[a].frozen
                         THEN o.result = "AccountFrozen" /\ o.accounts = accounts
                         ELSE o.result = "Ok" /\ o.accounts[a].delegate = dl

\* The owner has just delegated to the identity that appears nowhere else.
C7_Witness ==
    /\ last.op = "delegate_tokens" /\ last.result = "Ok"
    /\ last.signer = last.before.owner
    /\ last.before.delegate # D
    /\ accounts[last.account].delegate = D

(***************************************************************************)
(* C8: a successful delegate(account, D, amount) leaves the account with   *)
(* delegate D and approved amount exactly amount, whatever delegation the  *)
(* account had before.                                                     *)
(***************************************************************************)
C8_DelegateReplaces ==
    \A owner \in Signers, a \in AccountKeys, dl \in Delegates, amt \in Amounts :
        LET o == delegate_tokens(accounts, mints, owner, a, dl, amt)
        IN  o.result = "Ok" =>
               /\ o.accounts[a].delegate = dl
               /\ o.accounts[a].delegated_amount = amt
               /\ o.accounts[a] = [accounts[a] EXCEPT !.delegate = dl,
                                                     !.delegated_amount = amt]

\* A second delegation has just replaced a different delegate and a
\* positive amount.
C8_Witness ==
    /\ last.op = "delegate_tokens" /\ last.result = "Ok"
    /\ last.before.delegate \notin {None, accounts[last.account].delegate}
    /\ last.before.delegated_amount > 0
    /\ accounts[last.account].delegated_amount > 0

(***************************************************************************)
(* C9: a delegation signed by someone who is not the owner of the token    *)
(* account is sent to the token program, fails with the token program's    *)
(* error and leaves the account as it was.                                 *)
(***************************************************************************)
LedgerErrors == {"AccountFrozen", "OwnerMismatch", "MissingRequiredSignature",
                 "InvalidState", "MintMismatch", "MintCannotFreeze"}

C9_NonOwnerRejectedByLedger ==
    \A owner \in Signers, a \in AccountKeys, dl \in Delegates, amt \in Amounts :
        (accounts[a].exists /\ owner # accounts[a].owner) =>
            LET o == delegate_tokens(accounts, mints, owner, a, dl, amt)
            IN  /\ o.result \in LedgerErrors
                /\ o.result = TokenApprove(accounts, a, dl, amt, owner, TRUE).result
                /\ Len(o.cpi) = 1 /\ o.cpi[1].req = "token::approve"
                /\ o.cpi[1].authority = owner
                /\ o.accounts = accounts

\* A signer who is not the owner has just been refused by the token program.
C9_Witness ==
    /\ last.op = "delegate_tokens" /\ last.result = "OwnerMismatch"
    /\ last.before.exists /\ last.signer # last.before.owner
    /\ accounts[last.account] = last.before
    /\ Len(cpi) = 1

(***************************************************************************)
(* C10 as stated: a freeze by the mint_authority on an Active account of   *)
(* the mint makes the account Frozen.                                      *)
(***************************************************************************)
C10_AsStated ==
    ( /\ last.op = "freeze_token_account"
      /\ last.before.exists /\ ~last.before.frozen
      /\ last.mint = last.before.mint
      /\ last.signer = mints[last.mint].mint_authority )
    => accounts[last.account].frozen

(***************************************************************************)
(* C10 amended: the frozen flag goes from Active to Frozen only by a       *)
(* successful freeze and from Frozen to Active only by a successful thaw;  *)
(* freeze and thaw pass or fail the local checks alike; and for a mint     *)
(* whose freeze_authority is the program authority, a freeze by the        *)
(* mint_authority on an Active account makes it Frozen and a thaw by the   *)
(* same admin right after gives back the ledger as it was before.          *)
(***************************************************************************)
LocalErrors == {"AccountNotInitialized", StructuralMismatch, "ConstraintSeeds",
                "Panic", "Unauthorized"}

RoundTrip ==
    \A admin \in Signers, a \in AccountKeys, m \in MintKeys :
        LET f == freeze_token_account(accounts, mints, admin, a, m)
            t == thaw_token_account(accounts, mints, admin, a, m)
        IN  /\ (f.result \in LocalErrors \/ t.result \in LocalErrors)
                  => f.result = t.result
            /\ ( /\ Named(a, m) /\ Authorized(admin, a, m)
                 /\ mints[m].freeze_authority = ProgramAuthority
                 /\ ~accounts[a].frozen )
                  => /\ f.result = "Ok"
                     /\ f.accounts = [accounts EXCEPT ![a].frozen = TRUE]
                     /\ LET u == thaw_token_account(f.accounts, f.mints, admin, a, m)
                        IN  /\ u.result = "Ok"
                            /\ u.accounts = accounts
                            /\ u.mints = mints

C10_TwoStateMachine ==
    /\ []RoundTrip
    /\ [][ \A a \in AccountKeys :
              accounts[a].exists =>
                 /\ (~accounts[a].frozen /\ accounts'[a].frozen)
                       => /\ last'.op = "freeze_token_account"
                          /\ last'.account = a /\ last'.result = "Ok"
                 /\ (accounts[a].frozen /\ ~accounts'[a].frozen)
                       => /\ last'.op = "thaw_token_account"
                          /\ last'.account = a /\ last'.result = "Ok"
         ]_vars

\* A thaw has just returned a frozen account of a mint frozen by the
\* program authority to Active, the rest of the account untouched.
C10_Witness ==
    /\ last.op = "thaw_token_account" /\ last.result = "Ok"
    /\ last.before.frozen
    /\ accounts[last.account] = [last.before EXCEPT !.frozen = FALSE]
    /\ mints[last.mint].freeze_authority = ProgramAuthority
    /\ last.signer = mints[last.mint].mint_authority

(***************************************************************************)
(* C11: a freeze or thaw changes nothing but the frozen flag of the token  *)
(* account it names: every other token account, every mint and the other   *)
(* fields of the named account stay as they were.                          *)
(***************************************************************************)
C11_FreezeThawFrame ==
    \A freeze \in BOOLEAN, admin \in Signers, a \in AccountKeys, m \in MintKeys :
        LET o == Toggle(freeze, admin, a, m)
        IN  /\ o.mints = mints
            /\ \A b \in AccountKeys \ {a} : o.accounts[b] = accounts[b]
            /\ o.accounts[a] = [accounts[a] EXCEPT !.frozen = o.accounts[a].frozen]

\* An account with a delegation has just been frozen while the other
\* account of the same mint stays Active.
C11_Witness ==
    /\ last.op = "freeze_token_account" /\ last.result = "Ok"
    /\ last.before.delegate # None
    /\ accounts[last.account] = [last.before EXCEPT !.frozen = TRUE]
    /\ \E b \in AccountKeys \ {last.account} :
          /\ accounts[b].exists /\ accounts[b].mint = accounts[last.account].mint
          /\ ~accounts[b].frozen

(***************************************************************************)
(* C12: the program authority of create_token_mint and of freeze/thaw is   *)
(* the same address derived from "authority"; for a mint made by           *)
(* create_token_mint the authority and signer seeds that freeze and thaw   *)
(* present match the mint's freeze_authority, so a call that passed the    *)
(* local checks is never refused by the token program's authority check.   *)
(***************************************************************************)
AuthorityErrors == {"OwnerMismatch", "MissingRequiredSignature", "MintCannotFreeze"}

C12_ProofMatchesFreezeAuthority ==
    /\ CreateMintProgramAuthority = FreezeOrThawProgramAuthority
    /\ \A freeze \in BOOLEAN, admin \in Signers, a \in AccountKeys, m \in CreatableMints :
          LET o == Toggle(freeze, admin, a, m)
          IN  o.cpi # <<>> =>
                 /\ o.cpi[1].authority = mints[m].freeze_authority
                 /\ o.cpi[1].signed
                 /\ o.result \notin AuthorityErrors

\* A freeze of an account of a created mint has just been accepted with
\* the derived authority as signer.
C12_Witness ==
    /\ last.op = "freeze_token_account" /\ last.result = "Ok"
    /\ last.mint \in CreatableMints
    /\ Len(cpi) = 1
    /\ cpi[1].authority = mints[last.mint].freeze_authority
    /\ cpi[1].signed

(***************************************************************************)
(* C13: an instruction sends at most one request to the token program and  *)
(* never repeats it; when the request fails the instruction returns that   *)
(* very error, and a failed instruction leaves the ledger as it was.       *)
(***************************************************************************)
TokenRequests == {"token::approve", "token::freeze_account", "token::thaw_account",
                  "token::initialize_mint2"}

NumTokenRequests(c) == Cardinality({i \in DOMAIN c : c[i].req \in TokenRequests})

\* The answer of the token program to the request c sent in the current state.
Answer(c, a, m, dl, amt) ==
    CASE c.req = "token::approve" ->
            TokenApprove(accounts, a, dl, amt, c.authority, c.signed).result
      [] c.req = "token::freeze_account" ->
            TokenFreezeAccount(accounts, mints, a, m, c.authority, c.signed).result
      [] c.req = "token::thaw_account" ->
            TokenThawAccount(accounts, mints, a, m, c.authority, c.signed).result
      [] OTHER -> "Ok"

\* What C13 asks of the outcome o of an instruction on account a and mint m.
OneRequestNoRetry(o, a, m, dl, amt) ==
    /\ NumTokenRequests(o.cpi) <= 1
    /\ \A i, j \in DOMAIN o.cpi : o.cpi[i] = o.cpi[j] => i = j
    /\ (Len(o.cpi) = 1 /\ o.cpi[1].req \in TokenRequests)
          => o.result = Answer(o.cpi[1], a, m, dl, amt)
    /\ o.result # "Ok" => (o.accounts = accounts /\ o.mints = mints)

C14_NoLocalIdempotenceGuard ==
    \A freeze \in BOOLEAN, admin \in Signers, a \in AccountKeys, m \in MintKeys :
        (Named(a, m) /\ Authorized(admin, a, m) /\ accounts[a].frozen = freeze)
        => LET o == Toggle(freeze, admin, a, m)
           IN  /\ Len(o.cpi) = 1
               /\ o.cpi[1].req = (IF freeze THEN "token::freeze_account"
                                            ELSE "token::thaw_account")
               /\ o.cpi[1].target = a
               /\ o.result = ToggleFreeze(accounts, mints, a, m, freeze,
                                          o.cpi[1].authority, o.cpi[1].signed).result
               /\ o.accounts[a].frozen = accounts[a].frozen

\* The mint_authority has just asked to freeze an account that was Frozen
\* already; the request went out and the token program's answer came back.
C14_Witness ==
    /\ last.op = "freeze_token_account"
    /\ last.before.frozen /\ accounts[last.account].frozen
    /\ last.signer = mints[last.mint].mint_authority
    /\ last.mint = last.before.mint
    /\ Len(cpi) = 1
    /\ last.result = "InvalidState"

(***************************************************************************)
(* C15: while the mint_authority of a mint is absent, every freeze and     *)
(* every thaw of an account of that mint fails for every admin and leaves  *)
(* the ledger unchanged, so a Frozen account of such a mint is Frozen in   *)
(* every later state.                                                      *)
(***************************************************************************)
AbsentAuthority(a) ==
    /\ accounts[a].exists
    /\ mints[accounts[a].mint].exists
    /\ mints[accounts[a].mint].mint_authority = None

FreezeThawLocked ==
    \A freeze \in BOOLEAN, admin \in Signers, a \in AccountKeys, m \in MintKeys :
        AbsentAuthority(a) =>
            LET o == Toggle(freeze, admin, a, m)
            IN  /\ o.result # "Ok"
                /\ o.accounts = accounts
                /\ o.mints = mints

C15_AbsentAuthorityLocks ==
    /\ []FreezeThawLocked
    /\ [][ \A a \in AccountKeys :
              (AbsentAuthority(a) /\ accounts[a].frozen)
              => /\ accounts'[a].frozen
                 /\ mints'[accounts'[a].mint].mint_authority = None
         ]_vars

\* A thaw of a Frozen account of a mint without mint_authority has just
\* failed and the account is still Frozen.
C15_Witness ==
    /\ last.op = "thaw_token_account" /\ last.result # "Ok"
    /\ last.mint = last.before.mint
    /\ mints[last.mint].mint_authority = None
    /\ last.before.frozen /\ accounts[last.account].frozen

(***************************************************************************)
(* C16: create_token_mint for a mint address that already exists fails     *)
(* with the allocation error of the ledger (ProvisioningFailed) and leaves *)
(* the decimals, mint_authority and freeze_authority of the existing mint, *)
(* and everything else, unchanged.                                         *)
(***************************************************************************)
ProvisioningFailed == {"AccountAlreadyInUse", "InsufficientFunds"}

C16_MintCreatedOnce ==
    \A m \in MintKeys, d \in Decimals, auth \in Signers, funded \in BOOLEAN :
        mints[m].exists =>
            LET o == create_token_mint(accounts, mints, m, d, auth, funded)
            IN  /\ o.result = "AccountAlreadyInUse"
                /\ o.result \in ProvisioningFailed
                /\ o.mints = mints
                /\ o.accounts = accounts

\* A second create_token_mint for a mint made by the first has just failed.
C16_Witness ==
    /\ last.op = "create_token_mint" /\ last.result = "AccountAlreadyInUse"
    /\ last.mint \in CreatableMints
    /\ mints[last.mint].exists
    /\ mints[last.mint].freeze_authority = ProgramAuthority

(***************************************************************************)
(* C17: a signer who is not the mint_authority of the mint of a token      *)
(* account cannot freeze or thaw that account, whichever mint the call     *)
(* supplies (its own mint included) and although all mints share the       *)
(* program authority; the frozen flag of an account changes only in calls  *)
(* signed by the mint_authority of the account's mint.                     *)
(***************************************************************************)
NoCrossMintToggle ==
    \A freeze \in BOOLEAN, admin \in Signers, a \in AccountKeys, m \in MintKeys :
        ( /\ Named(a, m)
          /\ mints[accounts[a].mint].exists
          /\ admin # mints[accounts[a].mint].mint_authority )
        => LET o == Toggle(freeze, admin, a, m)
           IN  /\ o.result # "Ok"
               /\ o.cpi = <<>>
               /\ o.accounts = accounts
               /\ (m # accounts[a].mint /\ admin = mints[m].mint_authority)
                     => o.result = StructuralMismatch

C17_CrossMintIsolation ==
    /\ []NoCrossMintToggle
    /\ [][ \A a \in AccountKeys :
              (accounts[a].exists /\ accounts'[a].frozen # accounts[a].frozen)
              => /\ last'.op \in FreezeOps
                 /\ last'.account = a
                 /\ last'.mint = accounts[a].mint
                 /\ last'.signer = mints[accounts[a].mint].mint_authority
         ]_vars

\* The mint_authority of one mint has just tried to toggle an account of
\* another mint, supplying its own mint: both mints are frozen by the
\* program authority, their mint authorities differ, the account is as it
\* was.
C17_Witness ==
    /\ last.op \in FreezeOps /\ last.result = StructuralMismatch
    /\ last.mint # accounts[last.account].mint
    /\ last.signer = mints[last.mint].mint_authority
    /\ mints[accounts[last.account].mint].mint_authority \notin {None, last.signer}
    /\ mints[last.mint].freeze_authority = ProgramAuthority
    /\ mints[accounts[last.account].mint].freeze_authority = ProgramAuthority
    /\ accounts[last.account] = last.before

(***************************************************************************)
(* C18: delegate_tokens changes only the delegate and the approved amount  *)
(* of the token account it names (no frozen flag, owner or mint reference, *)
(* no other account, no mint); create_token_mint adds at most the one mint *)
(* it names and changes no existing mint and no token account.             *)
(***************************************************************************)
C18_DelegateCreateFrame ==
    /\ \A owner \in Signers, a \in AccountKeys, dl \in Delegates, amt \in Amounts :
          LET o == delegate_tokens(accounts, mints, owner, a, dl, amt)
          IN  /\ o.mints = mints
              /\ \A b \in AccountKeys \ {a} : o.accounts[b] = accounts[b]
              /\ o.accounts[a] =
                    [accounts[a] EXCEPT !.delegate = o.accounts[a].delegate,
                                        !.delegated_amount = o.accounts[a].delegated_amount]
    /\ \A m \in MintKeys, d \in Decimals, auth \in Signers, funded \in BOOLEAN :
          LET o == create_token_mint(accounts, mints, m, d, auth, funded)
          IN  /\ o.accounts = accounts
              /\ \A n \in MintKeys \ {m} : o.mints[n] = mints[n]
              /\ mints[m].exists => o.mints[m] = mints[m]
              /\ o.result = "Ok" => (~mints[m].exists /\ o.mints[m].exists)

\* A delegation has just been recorded on one account while the other
\* account of the same owner keeps a different delegation.
C18_Witness ==
    /\ last.op = "delegate_tokens" /\ last.result = "Ok"
    /\ accounts[last.account] # last.before
    /\ accounts[last.account].frozen = last.before.frozen
    /\ \E b \in AccountKeys \ {last.account} :
          /\ accounts[b].exists
          /\ accounts[b].owner = accounts[last.account].owner
          /\ accounts[b].delegate # accounts[last.account].delegate
    /\ \E m \in CreatableMints : mints[m].exists

====
